---- MODULE Spec2Model ----
(***************************************************************************)
(* Model of modelling/part-4/gen_data.py: the synthetic demand data set.   *)
(*                                                                         *)
(* The script is a straight line of statements: seed the global numpy      *)
(* random source, sample an N x F feature matrix, apply the demand         *)
(* transform row by row, re-index from 1, name the index, write the CSV.   *)
(* The configuration (N, F and the sampling interval) are module-level     *)
(* literals of the script; the model fixes them in Init and ranges over    *)
(* small values of them, so that the behaviour of the same statements      *)
(* under another configuration can be examined.                            *)
(*                                                                         *)
(* Real numbers are fixed-point integers counted in units of 10^-5         *)
(* (Fine).  Floating-point products are rounded to the working precision   *)
(* 10^-4 of the model.  The random source is a small linear congruential   *)
(* stream: what matters to the properties below is that a draw is a        *)
(* function of the generator state and advances it.                        *)
(***************************************************************************)
EXTENDS Integers, Sequences, FiniteSets, TLC

VARIABLES
    N,          \* row count (line 8)
    F,          \* feature count (line 9)
    lo, hi,     \* sampling interval, the arguments of np.random.uniform (line 12)
    seed,       \* the argument of np.random.seed (line 6)
    pc,         \* the statement the interpreter is about to execute
    rng,        \* state of the process-wide numpy random source
    raw,        \* the N x F array np.random.uniform returned, before .round(4)
    data,       \* the DataFrame: columns, index, index name, row values
    result,     \* what data.apply has collected so far, one entry per row
    error,      \* the exception that ended the run, "none" while it runs
    file,       \* the destination path on disk
    opened,     \* number of times this run opened the destination for writing
    log,        \* history: every draw of this run, in the order it was taken
    golden,     \* history: the table written by the first run that completed
    run         \* number of the current run of the script

vars == <<N, F, lo, hi, seed, pc, rng, raw, data, result, error, file, opened, log, golden, run>>

----------------------------------------------------------------------------
(* Bounds of the model *)

MaxN == 3

MaxF == 6

MaxRuns == 2

----------------------------------------------------------------------------
(* Program constants *)

\* number of states of the random source
RngModulus == 32 * 4096

SeedValue == 123

\* the seeds examined: the script's, and the two that make the first draw the
\* smallest and the largest value the source can return
Seeds == {SeedValue, 30715, 61430}

Decimals == 4

NoiseMean == 4

NoiseSd == 2

Scale == 12

\* 10^k
RECURSIVE Pow10(_)
Pow10(k) == IF k = 0 THEN 1 ELSE 10 * Pow10(k - 1)

\* one stored decimal step, 10^-4, and the fixed-point unit, counted per 1.0
Fine == 10 * Pow10(Decimals)

\* the sampling intervals examined: the script's, an inverted one, an empty one
Intervals == {<<-1, 2>>, <<2, -1>>, <<1, 1>>}

\* generator states a process may hold before line 6 runs
LeftoverStates == {7, 2024}

----------------------------------------------------------------------------
(* Arithmetic *)

\* n / d rounded to the nearest integer, ties to the even one (rint, round())
RoundHalfEven(n, d) ==
    LET q == n \div d
        r == n - q * d
    IN  IF 2 * r < d THEN q
        ELSE IF 2 * r > d THEN q + 1
        ELSE IF q % 2 = 0 THEN q ELSE q + 1

\* ndarray.round(decimals): the nearest multiple of 10^-decimals
around(x, decimals) ==
    LET step == Fine \div Pow10(decimals)
    IN  RoundHalfEven(x, step) * step

\* .round(4) left out: the value is kept as drawn
round4_off(x) == x

\* .round(4)
round4(x) == around(x, Decimals)

\* product of two reals at working precision
fmul(a, b) ==
    LET w == Fine \div Pow10(4)
    IN  RoundHalfEven(RoundHalfEven(a, w) * RoundHalfEven(b, w), Pow10(4)) * w

\* math.sin, by its Taylor series in Horner form (x in [-2, 2])
sin(x) ==
    LET x2 == fmul(x, x)
        t5 == Fine - RoundHalfEven(x2, 110)
        t4 == Fine - RoundHalfEven(fmul(x2, t5), 72)
        t3 == Fine - RoundHalfEven(fmul(x2, t4), 42)
        t2 == Fine - RoundHalfEven(fmul(x2, t3), 20)
        t1 == Fine - RoundHalfEven(fmul(x2, t2), 6)
    IN  fmul(x, t1)

\* Python's round(x) with one argument: the nearest integer, ties to even
pyround(x) == RoundHalfEven(x, Fine) * Fine

----------------------------------------------------------------------------
(* The random source *)

\* np.random.seed(s): the state is a function of the seed alone
seed_state(s) == s % RngModulus

\* one step of the stream
advance1(s) == (1229 * s + 1) % RngModulus

\* the state after k draws
RECURSIVE advance(_, _)
advance(s, k) == IF k = 0 THEN s ELSE advance(advance1(s), k - 1)

\* random_sample from state s: s / RngModulus, in [0, 1)
random_sample(s) == (s * (Fine \div 32)) \div (RngModulus \div 32)

\* the scale taken with the wrong sign: low + (low - high) * u
uniform_sign(low, high, s) == low * Fine + (low - high) * random_sample(s)

\* np.random.uniform(low, high) from state s: low + (high - low) * u
uniform(low, high, s) == low * Fine + (high - low) * random_sample(s)

\* a standard normal deviate from state s: the quantile function at s / RngModulus,
\* piecewise linear between its octiles (counted in 10^-5)
Quantiles == <<-300000, -115035, -67449, -31864, 0, 31864, 67449, 115035, 300000>>

gauss(s) ==
    LET seg == (8 * s) \div RngModulus
        off == ((8 * s) % RngModulus) \div 32
        a   == Quantiles[seg + 1]
        b   == Quantiles[seg + 2]
    IN  a + ((b - a) * off) \div (RngModulus \div 32)

\* np.random.normal(loc, scale) from state s
normal(loc, scale, s) == loc * Fine + scale * gauss(s)

----------------------------------------------------------------------------
(* The table *)

\* f"Feature_{i}"
FeatureName(i) == "Feature_" \o ToString(i)

\* pd.RangeIndex(start, stop): start, start + 1, ..., stop - 1
RangeIndex(start, stop) == [k \in 1..(stop - start) |-> start + k - 1]

NoData == [columns |-> <<>>, index |-> <<>>, name |-> "", values |-> <<>>]

NoFile == [exists |-> FALSE, header |-> <<>>, rows |-> <<>>]

\* a file some earlier program left at the destination
StaleFile == [exists |-> TRUE, header |-> <<"Observation">>, rows |-> <<>>]

\* position of a column label
Position(columns, label) == CHOOSE p \in 1..Len(columns) : columns[p] = label

\* the row that data.apply(axis=1) hands to the function: label -> value
RowOf(d, i) ==
    [c \in {d.columns[p] : p \in 1..Len(d.columns)} |->
        d.values[i][Position(d.columns, c)]]

----------------------------------------------------------------------------
(* polynomial_function, lines 22-36 *)

\* k / 10 as a real
Tenths(k) == (k * Fine) \div 10

\* fs = np.array([row[f"Feature_{i+1}"] for i in range(F)]); fs[i] is Fs(row)[i + 1]
Fs(row) == [k \in 1..F |-> row[FeatureName((k - 1) + 1)]]

\* the positions of fs the formula reads: fs[0] .. fs[4]
UsedIndices == {0, 1, 2, 3, 4}

\* the call raises: a label is not in the row (KeyError) or fs is too short (IndexError)
RaisesKeyError(row) == \E i \in 0..(F - 1) : FeatureName(i + 1) \notin DOMAIN row

RaisesIndexError == \E i \in UsedIndices : (i + 1) \notin 1..F

\* the sine taken of the last feature, fs[-1], instead of fs[4]
val_last(fs) ==
      2 * Fine
    + fmul(Tenths(3), fs[1])
    + fmul(Tenths(5), fmul(fmul(fs[2], fs[2]), fs[2]))
    + fmul(fmul(Tenths(7), fs[3]), fs[4])
    + fmul(Tenths(9), fs[2] + fs[4])
    + sin(fs[Len(fs)])

\* lines 25-32
val(fs) ==
      2 * Fine
    + fmul(Tenths(3), fs[1])
    + fmul(Tenths(5), fmul(fmul(fs[2], fs[2]), fs[2]))
    + fmul(fmul(Tenths(7), fs[3]), fs[4])
    + fmul(Tenths(9), fs[2] + fs[4])
    + sin(fs[5])

\* the noise scaled together with the formula value: round(12 * (val + err))
polynomial_function_scaled(row, err) == pyround(Scale * (val(Fs(row)) + err))

\* the value returned for a row, given the noise drawn at line 34
polynomial_function(row, err) == pyround(Scale * val(Fs(row)) + err)

----------------------------------------------------------------------------
(* The statements of the script *)

Init ==
    /\ N \in 1..MaxN
    /\ F \in 1..MaxF
    /\ \E iv \in Intervals : lo = iv[1] /\ hi = iv[2]
    /\ seed \in Seeds
    /\ pc = "seed"
    /\ rng \in LeftoverStates
    /\ raw = <<>>
    /\ data = NoData
    /\ result = <<>>
    /\ error = "none"
    /\ file \in {NoFile, StaleFile}
    /\ opened = 0
    /\ log = <<>>
    /\ golden = NoFile
    /\ run = 1

\* line 6 left out: the source keeps whatever state it had
Seed_skipped ==
    /\ pc = "seed"
    /\ pc' = "sample"
    /\ UNCHANGED <<N, F, lo, hi, seed, rng, raw, data, result, error, file, opened, log, golden, run>>

\* line 6: np.random.seed(seed)
Seed ==
    /\ pc = "seed"
    /\ rng' = seed_state(seed)
    /\ pc' = "sample"
    /\ UNCHANGED <<N, F, lo, hi, seed, raw, data, result, error, file, opened, log, golden, run>>

\* lines 11-14: N * F uniform draws in row-major order, rounded, labelled
Sample ==
    /\ pc = "sample"
    /\ LET draws == [k \in 1..(N * F) |-> advance(rng, k)]
           u     == [r \in 1..N |-> [c \in 1..F |-> uniform(lo, hi, draws[(r - 1) * F + c])]]
       IN  /\ raw' = u
           /\ data' = [columns |-> [i \in 1..F |-> FeatureName(i)],
                       index   |-> RangeIndex(0, N),
                       name    |-> "",
                       values  |-> [r \in 1..N |-> [c \in 1..F |-> round4(u[r][c])]]]
           /\ rng' = advance(rng, N * F)
           /\ log' = log \o [k \in 1..(N * F) |->
                               [kind  |-> "uniform",
                                state |-> draws[k],
                                row   |-> ((k - 1) \div F) + 1,
                                value |-> u[((k - 1) \div F) + 1][((k - 1) % F) + 1]]]
    /\ pc' = "apply"
    /\ UNCHANGED <<N, F, lo, hi, seed, result, error, file, opened, golden, run>>

\* one noise draw, appended to the history
NormalDraw(s, i) ==
    [kind |-> "normal", state |-> s, row |-> i, value |-> normal(NoiseMean, NoiseSd, s)]

\* data.apply calling the function twice on the first row, once on the others
ApplyRow_first_twice ==
    /\ pc = "apply"
    /\ Len(result) < N
    /\ LET i   == Len(result) + 1
           row == RowOf(data, i)
           s0  == IF i = 1 THEN advance1(rng) ELSE rng
           s   == advance1(s0)
       IN  IF RaisesKeyError(row) \/ RaisesIndexError
           THEN /\ pc' = "failed"
                /\ error' = IF RaisesKeyError(row) THEN "KeyError" ELSE "IndexError"
                /\ UNCHANGED <<rng, result, log>>
           ELSE /\ rng' = s
                /\ result' = Append(result, polynomial_function(row, normal(NoiseMean, NoiseSd, s)))
                /\ log' = (IF i = 1 THEN Append(log, NormalDraw(s0, i)) ELSE log)
                              \o <<NormalDraw(s, i)>>
                /\ UNCHANGED <<pc, error>>
    /\ UNCHANGED <<N, F, lo, hi, seed, raw, data, file, opened, golden, run>>

\* line 40, data.apply(polynomial_function, axis=1): the call for the next row
ApplyRow ==
    /\ pc = "apply"
    /\ Len(result) < N
    /\ LET i   == Len(result) + 1
           row == RowOf(data, i)
           s   == advance1(rng)
       IN  IF RaisesKeyError(row) \/ RaisesIndexError
           THEN /\ pc' = "failed"
                /\ error' = IF RaisesKeyError(row) THEN "KeyError" ELSE "IndexError"
                /\ UNCHANGED <<rng, result, log>>
           ELSE /\ rng' = s
                /\ result' = Append(result, polynomial_function(row, normal(NoiseMean, NoiseSd, s)))
                /\ log' = Append(log, NormalDraw(s, i))
                /\ UNCHANGED <<pc, error>>
    /\ UNCHANGED <<N, F, lo, hi, seed, raw, data, file, opened, golden, run>>

\* line 40, data["Demand"] = ...: the collected values become the last column
AssignDemand ==
    /\ pc = "apply"
    /\ Len(result) = N
    /\ data' = [data EXCEPT !.columns = Append(@, "Demand"),
                            !.values  = [r \in 1..N |-> Append(@[r], result[r])]]
    /\ pc' = "index"
    /\ UNCHANGED <<N, F, lo, hi, seed, rng, raw, result, error, file, opened, log, golden, run>>

\* the index left counting from 0
SetIndex_zero_based ==
    /\ pc = "index"
    /\ data' = [data EXCEPT !.index = RangeIndex(0, Len(data.values))]
    /\ pc' = "name"
    /\ UNCHANGED <<N, F, lo, hi, seed, rng, raw, result, error, file, opened, log, golden, run>>

\* line 43: data.index = pd.RangeIndex(1, len(data) + 1)
SetIndex ==
    /\ pc = "index"
    /\ data' = [data EXCEPT !.index = RangeIndex(1, Len(data.values) + 1)]
    /\ pc' = "name"
    /\ UNCHANGED <<N, F, lo, hi, seed, rng, raw, result, error, file, opened, log, golden, run>>

\* line 44 left out: the index keeps no name
SetIndexName_unnamed ==
    /\ pc = "name"
    /\ pc' = "to_csv"
    /\ UNCHANGED <<N, F, lo, hi, seed, rng, raw, data, result, error, file, opened, log, golden, run>>

\* line 44: data.index.name = "Observation"
SetIndexName ==
    /\ pc = "name"
    /\ data' = [data EXCEPT !.name = "Observation"]
    /\ pc' = "to_csv"
    /\ UNCHANGED <<N, F, lo, hi, seed, rng, raw, result, error, file, opened, log, golden, run>>

\* line 46, to_csv opening the path for writing: the file is created or truncated,
\* or the path is not writable and nothing on disk changes
ToCsvOpen ==
    /\ pc = "to_csv"
    /\ \/ /\ file' = [exists |-> TRUE, header |-> <<>>, rows |-> <<>>]
          /\ opened' = opened + 1
          /\ pc' = "header"
          /\ UNCHANGED error
       \/ /\ pc' = "failed"
          /\ error' = "OSError"
          /\ UNCHANGED <<file, opened>>
    /\ UNCHANGED <<N, F, lo, hi, seed, rng, raw, data, result, log, golden, run>>

\* line 46, to_csv writing the header line (index=True: the index name comes first)
ToCsvHeader ==
    /\ pc = "header"
    /\ \/ /\ file' = [file EXCEPT !.header = <<data.name>> \o data.columns]
          /\ pc' = "rows"
          /\ UNCHANGED error
       \/ /\ pc' = "failed"
          /\ error' = "OSError"
          /\ UNCHANGED file
    /\ UNCHANGED <<N, F, lo, hi, seed, rng, raw, data, result, opened, log, golden, run>>

\* the line written for row k: its index value, then its cells
Line(d, k) == <<d.index[k]>> \o d.values[k]

\* line 46, to_csv writing the data rows in order; the device may fail after any
\* number of them, and what was written stays on disk
ToCsvRows ==
    /\ pc = "rows"
    /\ \/ /\ file' = [file EXCEPT !.rows = [k \in 1..Len(data.values) |-> Line(data, k)]]
          /\ pc' = "done"
          /\ UNCHANGED error
       \/ \E n \in 0..(Len(data.values) - 1) :
              /\ file' = [file EXCEPT !.rows = [k \in 1..n |-> Line(data, k)]]
              /\ pc' = "failed"
              /\ error' = "OSError"
    /\ UNCHANGED <<N, F, lo, hi, seed, rng, raw, data, result, opened, log, golden, run>>

\* the script is run again with the same constants: in a fresh process, whose
\* random source holds some unrelated state, or in the process of the last run,
\* whose random source is where that run left it
Rerun ==
    /\ pc \in {"done", "failed"}
    /\ run < MaxRuns
    /\ \/ rng' \in LeftoverStates
       \/ rng' = rng
    /\ golden' = IF pc = "done" /\ ~golden.exists THEN file ELSE golden
    /\ pc' = "seed"
    /\ raw' = <<>>
    /\ data' = NoData
    /\ result' = <<>>
    /\ error' = "none"
    /\ opened' = 0
    /\ log' = <<>>
    /\ run' = run + 1
    /\ UNCHANGED <<N, F, lo, hi, seed, file>>

Next ==
    \/ Seed
    \/ Sample
    \/ ApplyRow
    \/ AssignDemand
    \/ SetIndex
    \/ SetIndexName
    \/ ToCsvOpen
    \/ ToCsvHeader
    \/ ToCsvRows
    \/ Rerun

Spec == Init /\ [][Next]_vars

----------------------------------------------------------------------------
(* What the properties below speak about *)

\* the statements after line 40
AfterApply == {"index", "name", "to_csv", "header", "rows", "done"}

\* the noise draw taken in the call for row r
NoiseOfRow(r) ==
    LET k == CHOOSE j \in 1..Len(log) : log[j].kind = "normal" /\ log[j].row = r
    IN  log[k].value

\* 2 + 0.3 f1 + 0.5 f2^3 + 0.7 f3 f4 + 0.9 (f2 + f4) + sin(f5)
Formula(f1, f2, f3, f4, f5) ==
      2 * Fine
    + fmul((3 * Fine) \div 10, f1)
    + fmul((5 * Fine) \div 10, fmul(fmul(f2, f2), f2))
    + fmul(fmul((7 * Fine) \div 10, f3), f4)
    + fmul((9 * Fine) \div 10, f2 + f4)
    + sin(f5)

\* round(12 * formula + noise), as a real
DemandOf(f1, f2, f3, f4, f5, noise) ==
    RoundHalfEven(12 * Formula(f1, f2, f3, f4, f5) + noise, Fine) * Fine

Labels ==
    <<"Feature_1", "Feature_2", "Feature_3", "Feature_4",
      "Feature_5", "Feature_6", "Feature_7", "Feature_8">>

\* the file holds a header and all N rows
FullTable == file.exists /\ file.header # <<>> /\ Len(file.rows) = N

----------------------------------------------------------------------------
(* C1: determinism.  Every draw of a run is the draw the seed alone          *)
(* determines (the k-th draw is taken from the k-th state after seeding and  *)
(* its value is a function of that state), and a run that completes after   *)
(* an earlier completed run of the same configuration writes the very same  *)
(* table, whatever state the random source held before line 6.              *)
C1_Determinism ==
    /\ \A k \in 1..Len(log) :
           /\ log[k].state = advance(seed % RngModulus, k)
           /\ log[k].value = IF log[k].kind = "uniform"
                             THEN lo * Fine + (hi - lo) * random_sample(log[k].state)
                             ELSE NoiseMean * Fine + NoiseSd * gauss(log[k].state)
    /\ (pc = "done" /\ golden.exists) => file = golden

C1_Witness ==
    /\ pc = "done"
    /\ run = 2
    /\ golden.exists
    /\ Len(golden.rows) = N
    /\ N > 1

(* C2: formula consistency.  In the table written, the Demand of every row  *)
(* is round(12 * formula(f1..f5) + noise) where f1..f5 are the row's stored  *)
(* (rounded) features and noise is the draw taken in the call for that row.  *)
C2_FormulaConsistency ==
    pc = "done" =>
        \A r \in 1..N :
            LET line == file.rows[r]
            IN  line[F + 2] =
                    DemandOf(line[2], line[3], line[4], line[5], line[6], NoiseOfRow(r))

C2_Witness ==
    /\ pc = "done"
    /\ \E r \in 1..N :
           /\ \E c \in 1..5 : raw[r][c] # file.rows[r][c + 1]
           /\ NoiseOfRow(r) % Fine # 0

(* C3: noise draw order.  A run takes all N * F uniform draws first and then *)
(* one normal(4, 2) draw per row, the k-th of them in the call for row k;    *)
(* all draws are consecutive states of one stream; a run that gets past the  *)
(* transform has taken exactly N * F + N draws.                              *)
C3_NoiseDrawOrder ==
    /\ Len(log) <= N * F + N
    /\ \A k \in 1..Len(log) :
           /\ k <= N * F => log[k].kind = "uniform"
           /\ k > N * F =>
                  /\ log[k].kind = "normal"
                  /\ log[k].row = k - N * F
                  /\ log[k].value = 4 * Fine + 2 * gauss(log[k].state)
           /\ k > 1 => log[k].state = advance1(log[k - 1].state)
    /\ pc \in AfterApply =>
           /\ Len(log) = N * F + N
           /\ \A r \in 1..N : result[r] = data.values[r][F + 1]

C3_Witness ==
    /\ pc = "done"
    /\ N > 1
    /\ log[N * F + N].row = N

(* C4: atomic output.  A run that completes leaves the full table, and a     *)
(* run that fails after touching the destination leaves no partial file.     *)
C4_AtomicOutput ==
    /\ pc = "done" => FullTable
    /\ (pc = "failed" /\ opened > 0) => (~file.exists \/ FullTable)
    /\ opened <= 1
    /\ opened > 0 => pc \in {"header", "rows", "done", "failed"}

(* C5: invalid configuration is rejected.  With an empty or inverted         *)
(* interval no draw is taken, the destination is not opened and the run      *)
(* does not complete.                                                        *)
C5_InvalidConfigurationRejected ==
    lo >= hi =>
        /\ log = <<>>
        /\ opened = 0
        /\ pc \notin AfterApply

(* C6: index.  In the table written the first cell of line k is k, for       *)
(* k = 1..N, and line k carries the rounded k-th sampled row and the value   *)
(* the transform returned for it.                                            *)
C6_Index ==
    pc = "done" =>
        /\ Len(file.rows) = N
        /\ \A k \in 1..N :
               /\ file.rows[k][1] = k
               /\ \A c \in 1..F : file.rows[k][c + 1] = around(raw[k][c], 4)
               /\ file.rows[k][F + 2] = result[k]

C6_Witness ==
    /\ pc = "done"
    /\ N > 1
    /\ file.rows[N][1] = N
    /\ file.rows[1] # file.rows[N]

(* C7: shape and column order.  The table written has N lines of F + 2       *)
(* cells under the header Observation, Feature_1, ..., Feature_F, Demand.    *)
C7_Shape ==
    pc = "done" =>
        /\ Len(file.rows) = N
        /\ \A k \in 1..N : Len(file.rows[k]) = F + 2
        /\ file.header = <<"Observation">> \o SubSeq(Labels, 1, F) \o <<"Demand">>

C7_Witness ==
    /\ pc = "done"
    /\ N = MaxN
    /\ F = MaxF
    /\ Len(file.header) = F + 2

(* C8: range.  With the interval lo < hi every stored feature value lies in  *)
(* [lo, hi], in the table in memory and in the table written.                *)
C8_Range ==
    lo < hi =>
        /\ \A r \in 1..Len(data.values) : \A c \in 1..F :
               lo * Fine <= data.values[r][c] /\ data.values[r][c] <= hi * Fine
        /\ pc = "done" =>
               \A r \in 1..N : \A c \in 1..F :
                   lo * Fine <= file.rows[r][c + 1] /\ file.rows[r][c + 1] <= hi * Fine

\* a draw below hi was rounded up to hi, and it was written
C8_Witness ==
    /\ pc = "done"
    /\ lo < hi
    /\ raw[1][1] < hi * Fine
    /\ file.rows[1][2] = hi * Fine

(* C9: rounding.  Every stored feature value is a multiple of 10^-4 and      *)
(* every Demand value is an integer, in memory and in the table written.     *)
C9_Rounding ==
    /\ \A r \in 1..Len(data.values) : \A c \in 1..F :
           data.values[r][c] % (Fine \div 10000) = 0
    /\ \A r \in 1..Len(result) : result[r] % Fine = 0
    /\ pc = "done" =>
           \A r \in 1..N :
               /\ \A c \in 1..F : file.rows[r][c + 1] % (Fine \div 10000) = 0
               /\ file.rows[r][F + 2] % Fine = 0

\* a draw with a fifth decimal was stored and written
C9_Witness ==
    /\ pc = "done"
    /\ \E r \in 1..N : \E c \in 1..F :
           /\ raw[r][c] % 10 # 0
           /\ file.rows[r][c + 1] # raw[r][c]

(* C10: the transform reads the first five features only.  For F >= 5 the    *)
(* Demand of a row is a function of Feature_1..Feature_5 and the row's       *)
(* noise; for F < 5 the first call raises IndexError before any noise is     *)
(* drawn, the run never gets past line 40 and never opens the destination.   *)
C10_FirstFiveFeatures ==
    /\ (F >= 5 /\ pc \in AfterApply) =>
           \A r \in 1..N :
               LET v == data.values[r]
               IN  v[F + 1] = DemandOf(v[1], v[2], v[3], v[4], v[5], NoiseOfRow(r))
    /\ F < 5 =>
           /\ pc \in {"seed", "sample", "apply", "failed"}
           /\ result = <<>>
           /\ Len(log) <= N * F
           /\ opened = 0
           /\ pc = "failed" => error = "IndexError"

C10_Witness ==
    /\ pc = "done"
    /\ F > 5
    /\ \E r \in 1..N : file.rows[r][7] # file.rows[r][6]

====
